---- MODULE Spec2Model ----
(***************************************************************************)
(* Model of the inventory manager of src/main.py: the Item entity, the     *)
(* InventoryManager catalog (an insertion-ordered dict from key to Item),  *)
(* its add / remove / search / sort / load / save operations, and the      *)
(* callers' use of the lists it returns.                                   *)
(*                                                                         *)
(* Representation.  A Python str is a sequence of one-character strings,   *)
(* so that lower(), strip(), concatenation, int(), float() and the ".2f"   *)
(* formatting are computed character by character.  A price (a float) is   *)
(* an integer number of thousandths; the inputs hold no value ending in 5  *)
(* thousandths, where the rounding of ".2f" depends on the float's binary  *)
(* representation.  The csv module carries rows of cells unchanged (its    *)
(* quoting is lossless), so a file is a sequence of rows of cells.         *)
(***************************************************************************)
EXTENDS Integers, Sequences, FiniteSets, TLC

VARIABLES items, nextOid, view, file, reloaded, last, prev, nops

vars == <<items, nextOid, view, file, reloaded, last, prev, nops>>

----------------------------------------------------------------------------
(* Bounds and inputs *)

MaxOps == 2

Names == { <<"a">>, <<" ", "A">>, <<"a", "_", "b">> }

Cats == { <<"c">>, <<"C">>, <<"b", "_", "c">> }

Prices == { 2500, 1204 }

Qtys == { 2, -3 }

Queries == { <<"a">>, <<"C">>, <<"_", "b">> }

SortKeys == { "name", "price", "quantity", "category", "total", "none" }

NewPrices == { 9990, -1000 }

----------------------------------------------------------------------------
(* str methods *)

LowerChar(c) ==
    CASE c = "A" -> "a" [] c = "B" -> "b" [] c = "C" -> "c"
      [] c = "N" -> "n" [] c = "P" -> "p" [] c = "Q" -> "q"
      [] OTHER -> c

Lower(s) == [i \in 1..Len(s) |-> LowerChar(s[i])]

IsSpace(c) == c = " "

RECURSIVE LStrip(_)
LStrip(s) == IF s # <<>> /\ IsSpace(Head(s)) THEN LStrip(Tail(s)) ELSE s

RECURSIVE RStrip(_)
RStrip(s) ==
    IF s # <<>> /\ IsSpace(s[Len(s)]) THEN RStrip(SubSeq(s, 1, Len(s) - 1)) ELSE s

Strip(s) == RStrip(LStrip(s))

\* `q in s` on strings: q is a contiguous substring of s
Contains(s, q) ==
    \E i \in 1..(Len(s) - Len(q) + 1) : SubSeq(s, i, i + Len(q) - 1) = q

\* s.replace(a, b) for one-character a and b
Replace(s, a, b) == [i \in 1..Len(s) |-> IF s[i] = a THEN b ELSE s[i]]

\* code points of the characters used, for the ordering of strings
Ord(c) ==
    CASE c = " " -> 32 [] c = "(" -> 40 [] c = ")" -> 41 [] c = "+" -> 43
      [] c = "," -> 44 [] c = "-" -> 45 [] c = "." -> 46
      [] c = "0" -> 48 [] c = "1" -> 49 [] c = "2" -> 50 [] c = "3" -> 51
      [] c = "4" -> 52 [] c = "5" -> 53 [] c = "6" -> 54 [] c = "7" -> 55
      [] c = "8" -> 56 [] c = "9" -> 57
      [] c = "A" -> 65 [] c = "B" -> 66 [] c = "C" -> 67 [] c = "N" -> 78
      [] c = "P" -> 80 [] c = "Q" -> 81 [] c = "_" -> 95
      [] c = "a" -> 97 [] c = "b" -> 98 [] c = "c" -> 99 [] c = "e" -> 101
      [] c = "g" -> 103 [] c = "i" -> 105 [] c = "m" -> 109 [] c = "n" -> 110
      [] c = "o" -> 111 [] c = "r" -> 114 [] c = "t" -> 116 [] c = "u" -> 117
      [] c = "x" -> 120 [] c = "y" -> 121
      [] OTHER -> 8364

\* s < t on strings (lexicographic by code point)
RECURSIVE StrLess(_, _)
StrLess(s, t) ==
    IF t = <<>> THEN FALSE
    ELSE IF s = <<>> THEN TRUE
    ELSE IF Ord(Head(s)) # Ord(Head(t)) THEN Ord(Head(s)) < Ord(Head(t))
    ELSE StrLess(Tail(s), Tail(t))

----------------------------------------------------------------------------
(* Conversions between numbers and strings *)

Digits == <<"0", "1", "2", "3", "4", "5", "6", "7", "8", "9">>

IsDigit(c) == \E d \in 1..10 : Digits[d] = c

DigitVal(c) == (CHOOSE d \in 1..10 : Digits[d] = c) - 1

AllDigits(s) == \A i \in 1..Len(s) : IsDigit(s[i])

\* value of a non-empty digit string
RECURSIVE DigitsVal(_)
DigitsVal(s) ==
    IF s = <<>> THEN 0
    ELSE DigitsVal(SubSeq(s, 1, Len(s) - 1)) * 10 + DigitVal(s[Len(s)])

\* str(n) for n >= 0
RECURSIVE NatStr(_)
NatStr(n) ==
    IF n < 10 THEN <<Digits[n + 1]>> ELSE NatStr(n \div 10) \o <<Digits[(n % 10) + 1]>>

Abs(n) == IF n < 0 THEN -n ELSE n

\* str(n) for an int
IntStr(n) == IF n < 0 THEN <<"-">> \o NatStr(-n) ELSE NatStr(n)

HasSign(s) == s # <<>> /\ Head(s) \in {"+", "-"}

Unsigned(s) == IF HasSign(s) THEN Tail(s) ELSE s

SignOf(s) == IF s # <<>> /\ Head(s) = "-" THEN -1 ELSE 1

\* int(s): surrounding whitespace, an optional sign, one or more digits
\* (underscores between digits are not modelled).  ok = FALSE stands for
\* ValueError.
ParseInt(s) ==
    LET t == Strip(s)
        u == Unsigned(t)
    IN  IF u # <<>> /\ AllDigits(u)
        THEN [ok |-> TRUE, val |-> SignOf(t) * DigitsVal(u)]
        ELSE [ok |-> FALSE, val |-> 0]

DotAt(u) == IF \E i \in 1..Len(u) : u[i] = "." THEN CHOOSE i \in 1..Len(u) : u[i] = "." /\ \A j \in 1..(i - 1) : u[j] # "."
            ELSE 0

\* the first three fractional digits as thousandths
Thousandths(f) ==
    LET p == SubSeq(f \o <<"0", "0", "0">>, 1, 3) IN DigitsVal(p)

\* float(s): surrounding whitespace, an optional sign, digits with at most
\* one decimal point and at least one digit (exponents, underscores, inf and
\* nan are not modelled).  The value is in thousandths.
ParseFloat(s) ==
    LET t == Strip(s)
        u == Unsigned(t)
        d == DotAt(u)
        ip == IF d = 0 THEN u ELSE SubSeq(u, 1, d - 1)
        fp == IF d = 0 THEN <<>> ELSE SubSeq(u, d + 1, Len(u))
    IN  IF AllDigits(ip) /\ AllDigits(fp) /\ Len(ip) + Len(fp) > 0
        THEN [ok |-> TRUE, val |-> SignOf(t) * (DigitsVal(ip) * 1000 + Thousandths(fp))]
        ELSE [ok |-> FALSE, val |-> 0]

\* f"{price:.2f}": the nearest hundredth, two fractional digits, the sign kept
FormatPrice(p) ==
    LET cents == (Abs(p) + 5) \div 10
        frac == cents % 100
    IN  (IF p < 0 THEN <<"-">> ELSE <<>>)
        \o NatStr(cents \div 100) \o <<".">>
        \o <<Digits[(frac \div 10) + 1], Digits[(frac % 10) + 1]>>

----------------------------------------------------------------------------
(* class Item *)

\* the f-string "{a.lower()}_{b.lower()}" of lines 14, 66, 86 and 102
IdOf(name, category) == Lower(name) \o <<"_">> \o Lower(category)

\* Item.__init__: float(price) and int(quantity) leave numbers as they are
Item(name, price, category, quantity) ==
    [ name     |-> Strip(name),
      price    |-> price,
      category |-> Strip(category),
      quantity |-> quantity,
      id       |-> IdOf(Strip(name), Strip(category)) ]

\* Item.total
Total(it) == it.price * it.quantity

\* Item.to_csv_row
ToCsvRow(it) == <<it.name, IntStr(it.quantity), FormatPrice(it.price), it.category>>

\* Item.get_id
GetId(it) == it.id

\* Item.add_quantity
AddQuantity(it, amount) == [it EXCEPT !.quantity = @ + amount]

\* Item.update_price
UpdatePrice(it, newPrice) == IF newPrice > 0 THEN [it EXCEPT !.price = newPrice] ELSE it

----------------------------------------------------------------------------
(* InventoryManager.items: a dict, kept as the sequence of its entries in   *)
(* insertion order.  An entry is [key, oid, item]: the dict key, the        *)
(* identity of the Item object stored under it, and the object's fields.    *)

HasKey(its, k) == \E i \in 1..Len(its) : its[i].key = k

IndexOfKey(its, k) == CHOOSE i \in 1..Len(its) : its[i].key = k

\* self.items[k] = Item(...) for a key not in the dict
DictInsert(its, k, oid, it) == Append(its, [key |-> k, oid |-> oid, item |-> it])

\* del self.items[k]
DictDel(its, k) == SelectSeq(its, LAMBDA e : e.key # k)

\* self.items[k].add_quantity(amount)
DictAddQuantity(its, k, amount) ==
    [its EXCEPT ![IndexOfKey(its, k)].item = AddQuantity(@, amount)]

----------------------------------------------------------------------------
(* InventoryManager.add_item.  noid is the identity the next constructed    *)
(* Item gets.  With a numeric price and quantity nothing in the try block   *)
(* raises, so the except branch is not taken.  created is not returned by   *)
(* the code: it records which branch ran.                                   *)

\* a variant that returns whether a new Item was created
AddItem_ReturnsCreated(its, noid, name, price, category, quantity) ==
    LET item_id == IdOf(name, category)
    IN  IF HasKey(its, item_id)
        THEN [ items   |-> DictAddQuantity(its, item_id, quantity),
               nextOid |-> noid,
               ret     |-> FALSE,
               created |-> FALSE ]
        ELSE [ items   |-> DictInsert(its, item_id, noid, Item(name, price, category, quantity)),
               nextOid |-> noid + 1,
               ret     |-> TRUE,
               created |-> TRUE ]

AddItem(its, noid, name, price, category, quantity) ==
    LET item_id == IdOf(name, category)
    IN  IF HasKey(its, item_id)
        THEN [ items   |-> DictAddQuantity(its, item_id, quantity),
               nextOid |-> noid,
               ret     |-> TRUE,
               created |-> FALSE ]
        ELSE [ items   |-> DictInsert(its, item_id, noid, Item(name, price, category, quantity)),
               nextOid |-> noid + 1,
               ret     |-> TRUE,
               created |-> TRUE ]

----------------------------------------------------------------------------
(* InventoryManager.remove_item *)

\* `if category:` is false for None and for the empty string
Truthy(hasCat, category) == hasCat /\ category # <<>>

\* a variant of the loop that compares the names as they are
RECURSIVE RemoveLoop_CaseSensitive(_, _, _, _, _)
RemoveLoop_CaseSensitive(its, snapshot, i, name, removed) ==
    IF i > Len(snapshot) THEN [items |-> its, ret |-> removed]
    ELSE IF snapshot[i].item.name = name
         THEN RemoveLoop_CaseSensitive(DictDel(its, snapshot[i].key), snapshot, i + 1, name, TRUE)
         ELSE RemoveLoop_CaseSensitive(its, snapshot, i + 1, name, removed)

\* the loop of lines 110-114 over the snapshot list(self.items.items())
RECURSIVE RemoveLoop(_, _, _, _, _)
RemoveLoop(its, snapshot, i, name, removed) ==
    IF i > Len(snapshot) THEN [items |-> its, ret |-> removed]
    ELSE IF Lower(snapshot[i].item.name) = Lower(name)
         THEN RemoveLoop(DictDel(its, snapshot[i].key), snapshot, i + 1, name, TRUE)
         ELSE RemoveLoop(its, snapshot, i + 1, name, removed)

RemoveItem(its, name, hasCat, category) ==
    IF Truthy(hasCat, category)
    THEN LET item_id == IdOf(name, category)
         IN  IF HasKey(its, item_id)
             THEN [items |-> DictDel(its, item_id), ret |-> TRUE]
             ELSE [items |-> its, ret |-> FALSE]
    ELSE RemoveLoop(its, its, 1, name, FALSE)

----------------------------------------------------------------------------
(* InventoryManager.search_items and get_sorted_items.  The lists hold the  *)
(* stored Item objects themselves; a returned list is the sequence of its   *)
(* elements' identities.                                                    *)

RECURSIVE SearchLoop(_, _, _, _)
SearchLoop(its, i, query, results) ==
    IF i > Len(its) THEN results
    ELSE IF Contains(Lower(its[i].item.name), query)
            \/ Contains(Lower(its[i].item.category), query)
         THEN SearchLoop(its, i + 1, query, Append(results, its[i].oid))
         ELSE SearchLoop(its, i + 1, query, results)

\* a variant that returns copies: objects that are no stored Item
SearchItems_Copies(its, query) ==
    LET l == SearchLoop(its, 1, Lower(query), <<>>) IN [j \in 1..Len(l) |-> -l[j]]

SearchItems(its, query) == SearchLoop(its, 1, Lower(query), <<>>)

\* key(a) < key(b) for the sort keys of lines 134-143
KeyLess(a, b, sortBy) ==
    CASE sortBy = "name"     -> StrLess(Lower(a.item.name), Lower(b.item.name))
      [] sortBy = "price"    -> a.item.price < b.item.price
      [] sortBy = "quantity" -> a.item.quantity < b.item.quantity
      [] sortBy = "category" -> StrLess(Lower(a.item.category), Lower(b.item.category))
      [] sortBy = "total"    -> Total(a.item) < Total(b.item)
      [] OTHER               -> FALSE

\* list.sort(key=...) is stable: an element goes after every element of the
\* sorted prefix whose key is not greater than its own
RECURSIVE InsertSorted(_, _, _)
InsertSorted(sorted, e, sortBy) ==
    IF sorted = <<>> THEN <<e>>
    ELSE IF KeyLess(e, sorted[Len(sorted)], sortBy)
         THEN Append(InsertSorted(SubSeq(sorted, 1, Len(sorted) - 1), e, sortBy),
                     sorted[Len(sorted)])
         ELSE Append(sorted, e)

RECURSIVE StableSort(_, _, _)
StableSort(list, n, sortBy) ==
    IF n = 0 THEN <<>>
    ELSE InsertSorted(StableSort(list, n - 1, sortBy), list[n], sortBy)

\* the entries in the order get_sorted_items returns their Items
SortedEntries(its, sortBy) ==
    IF sortBy \in {"name", "price", "quantity", "category", "total"}
    THEN StableSort(its, Len(its), sortBy)
    ELSE its

GetSortedItems(its, sortBy) ==
    LET l == SortedEntries(its, sortBy) IN [i \in 1..Len(l) |-> l[i].oid]

----------------------------------------------------------------------------
(* InventoryManager.load_from_csv and save_to_csv.  A file source is        *)
(* [exists, rows]: whether os.path.exists holds and what csv.reader yields. *)

\* lines 53-73: one iteration of the loop over the rows
LoadRow(its, noid, row) ==
    IF Len(row) < 4 THEN [items |-> its, nextOid |-> noid]
    ELSE LET name     == row[1]
             qty      == ParseInt(row[2])
             price    == ParseFloat(Replace(row[3], ",", "."))
             category == row[4]
             item_id  == IdOf(name, category)
         IN  IF ~qty.ok \/ ~price.ok THEN [items |-> its, nextOid |-> noid]
             ELSE IF HasKey(its, item_id)
                  THEN [ items   |-> DictAddQuantity(its, item_id, qty.val),
                         nextOid |-> noid ]
                  ELSE [ items   |-> DictInsert(its, item_id, noid,
                                                Item(name, price.val, category, qty.val)),
                         nextOid |-> noid + 1 ]

\* a variant of the loop that stops at a row of fewer than four columns
RECURSIVE LoadRows_StopAtShortRow(_, _, _, _)
LoadRows_StopAtShortRow(its, noid, rows, i) ==
    IF i > Len(rows) \/ Len(rows[i]) < 4 THEN [items |-> its, nextOid |-> noid]
    ELSE LET r == LoadRow(its, noid, rows[i])
         IN  LoadRows_StopAtShortRow(r.items, r.nextOid, rows, i + 1)

RECURSIVE LoadRows(_, _, _, _)
LoadRows(its, noid, rows, i) ==
    IF i > Len(rows) THEN [items |-> its, nextOid |-> noid]
    ELSE LET r == LoadRow(its, noid, rows[i])
         IN  LoadRows(r.items, r.nextOid, rows, i + 1)

\* With rows of cells nothing but the ValueError of int() and float(), caught
\* per row, is raised inside the loop.  loaded_files, which nothing reads, is
\* left out.
LoadFromCsv(its, noid, src) ==
    IF ~src.exists THEN [items |-> its, nextOid |-> noid, ret |-> FALSE]
    ELSE LET r == LoadRows(its, noid, src.rows, 1)
         IN  [items |-> r.items, nextOid |-> r.nextOid, ret |-> TRUE]

\* the header row of line 244
HeaderRow ==
    << <<"N", "a", "m", "e">>,
       <<"Q", "u", "a", "n", "t", "i", "t", "y">>,
       <<"P", "r", "i", "c", "e", " ", "(", "€", ")">>,
       <<"C", "a", "t", "e", "g", "o", "r", "y">> >>

\* the rows save_to_csv writes
SaveToCsv(its) ==
    LET l == SortedEntries(its, "name")
    IN  <<HeaderRow>> \o [i \in 1..Len(l) |-> ToCsvRow(l[i].item)]

----------------------------------------------------------------------------
(* Input files *)

RowComma    == << <<"a">>, <<"2">>, <<"1", ",", "2", "0">>, <<"c">> >>

RowSpaced   == << <<" ", "A">>, <<" ", "3">>, <<"2", ".", "5", "0", "4">>, <<"b", "_", "c">> >>

RowNegative == << <<"a", "_", "b">>, <<"-", "3">>, <<"-", "1", ".", "0", "0">>, <<"c">>, <<"x">> >>

RowShort    == << <<"a">>, <<"2">> >>

RowBadQty   == << <<"a">>, <<"2", ".", "0">>, <<"1", ".", "0", "0">>, <<"c">> >>

RowBadPrice == << <<"a">>, <<"2">>, <<"1", ".", "2", ".", "3">>, <<"c">> >>

Rows == { RowComma, RowSpaced, RowNegative, RowShort, RowBadQty, RowBadPrice }

InputFiles == { <<>> } \cup { <<r>> : r \in Rows } \cup { <<r, s>> : r \in Rows, s \in Rows }

\* the files main() is started with (lines 432-435): none, or one file
StartFiles == { <<>>, <<RowComma, RowSpaced>> }

NoFile == [exists |-> FALSE, rows |-> <<>>]

\* what load_from_csv can be pointed at: a missing path, an input file, or
\* the file save_to_csv wrote
Sources == { NoFile } \cup { [exists |-> TRUE, rows |-> f] : f \in InputFiles } \cup { file }

----------------------------------------------------------------------------
(* State.  items, nextOid: the manager, from the end of main()'s start-up   *)
(* (the manager is constructed empty and loads the files given) onwards.    *)
(* items, nextOid: the manager.  view: the list last returned by    *)
(* search_items or get_sorted_items, held by the caller.  file: the file    *)
(* save_to_csv wrote.  reloaded: the items of a second, fresh manager that  *)
(* loaded that file.  last: the last call, its arguments, its result and    *)
(* the items before it; prev: the call before it when that was an add_item. *)

NoCall ==
    [ op |-> "init", name |-> <<>>, hasCat |-> FALSE, category |-> <<>>,
      price |-> 0, quantity |-> 0, src |-> NoFile, sortBy |-> "none",
      idx |-> 0, ret |-> FALSE, created |-> FALSE, fresh |-> FALSE,
      before |-> <<>> ]

Called(op) == [NoCall EXCEPT !.op = op, !.before = items]

Step(call) ==
    /\ nops < MaxOps
    /\ nops' = nops + 1
    /\ last' = call
    /\ prev' = IF last.op = "add_item" THEN [last EXCEPT !.before = <<>>] ELSE NoCall

\* the identity key of a request as Item.__init__ computes it (line 14)
TrueId(name, category) == Item(name, 0, category, 0).id

\* no stored Item has the request's identity key, and no dict key is the
\* request's
Fresh(its, name, category) ==
    \A i \in 1..Len(its) :
        /\ GetId(its[i].item) # TrueId(name, category)
        /\ its[i].key # IdOf(name, category)

Init ==
    /\ \E f \in StartFiles :
          LET r == LoadFromCsv(<<>>, 1, [exists |-> TRUE, rows |-> f])
          IN  items = r.items /\ nextOid = r.nextOid
    /\ view = <<>>
    /\ file = NoFile
    /\ reloaded = <<>>
    /\ last = NoCall
    /\ prev = NoCall
    /\ nops = 0

DoAddItem ==
    \E name \in Names, category \in Cats, price \in Prices, quantity \in Qtys :
        LET r == AddItem(items, nextOid, name, price, category, quantity)
        IN  /\ Step([Called("add_item") EXCEPT !.name = name, !.category = category,
                        !.hasCat = TRUE, !.price = price, !.quantity = quantity,
                        !.ret = r.ret, !.created = r.created,
                        !.fresh = Fresh(items, name, category)])
            /\ items' = r.items
            /\ nextOid' = r.nextOid
            /\ UNCHANGED <<view, file, reloaded>>

DoRemoveItem ==
    \E name \in Names, hasCat \in BOOLEAN, category \in Cats :
        LET r == RemoveItem(items, name, hasCat, IF hasCat THEN category ELSE <<>>)
        IN  /\ hasCat \/ category = CHOOSE c \in Cats : TRUE
            /\ Step([Called("remove_item") EXCEPT !.name = name, !.hasCat = hasCat,
                        !.category = IF hasCat THEN category ELSE <<>>, !.ret = r.ret])
            /\ items' = r.items
            /\ UNCHANGED <<nextOid, view, file, reloaded>>

DoLoadFromCsv ==
    \E src \in Sources :
        LET r == LoadFromCsv(items, nextOid, src)
        IN  /\ Step([Called("load_from_csv") EXCEPT !.src = src, !.ret = r.ret])
            /\ items' = r.items
            /\ nextOid' = r.nextOid
            /\ UNCHANGED <<view, file, reloaded>>

\* save_to_csv, then load_from_csv of the written file by a fresh manager
DoSaveThenLoad ==
    LET f == [exists |-> TRUE, rows |-> SaveToCsv(items)]
    IN  /\ Step([Called("save_then_load") EXCEPT !.src = f, !.ret = TRUE])
        /\ file' = f
        /\ reloaded' = LoadFromCsv(<<>>, 1, f).items
        /\ UNCHANGED <<items, nextOid, view>>

DoSearchItems ==
    \E query \in Queries :
        /\ Step([Called("search_items") EXCEPT !.name = query])
        /\ view' = SearchItems(items, query)
        /\ UNCHANGED <<items, nextOid, file, reloaded>>

DoGetSortedItems ==
    \E sortBy \in SortKeys :
        /\ Step([Called("get_sorted_items") EXCEPT !.sortBy = sortBy])
        /\ view' = GetSortedItems(items, sortBy)
        /\ UNCHANGED <<items, nextOid, file, reloaded>>

\* the caller applies a method to the object view[idx]; the object is the
\* stored Item when an entry of items has its identity
ObjAddQuantity(its, oid, amount) ==
    [i \in 1..Len(its) |->
        IF its[i].oid = oid THEN [its[i] EXCEPT !.item = AddQuantity(@, amount)] ELSE its[i]]

ObjUpdatePrice(its, oid, newPrice) ==
    [i \in 1..Len(its) |->
        IF its[i].oid = oid THEN [its[i] EXCEPT !.item = UpdatePrice(@, newPrice)] ELSE its[i]]

CallerAddQuantity ==
    \E idx \in 1..Len(view), amount \in Qtys :
        /\ Step([Called("view.add_quantity") EXCEPT !.idx = idx, !.quantity = amount])
        /\ items' = ObjAddQuantity(items, view[idx], amount)
        /\ UNCHANGED <<nextOid, view, file, reloaded>>

CallerUpdatePrice ==
    \E idx \in 1..Len(view), newPrice \in NewPrices :
        /\ Step([Called("view.update_price") EXCEPT !.idx = idx, !.price = newPrice])
        /\ items' = ObjUpdatePrice(items, view[idx], newPrice)
        /\ UNCHANGED <<nextOid, view, file, reloaded>>

Next ==
    \/ DoAddItem
    \/ DoRemoveItem
    \/ DoLoadFromCsv
    \/ DoSaveThenLoad
    \/ DoSearchItems
    \/ DoGetSortedItems
    \/ CallerAddQuantity
    \/ CallerUpdatePrice

Spec == Init /\ [][Next]_vars

----------------------------------------------------------------------------
(* Properties *)

Idx(its) == 1..Len(its)

\* the entries without the objects' identities
Content(its) == [i \in Idx(its) |-> [key |-> its[i].key, item |-> its[i].item]]

\* the normalized pair of a request
NormPair(name, category) == <<Lower(Strip(name)), Lower(Strip(category))>>

WithId(its, id) == { i \in Idx(its) : GetId(its[i].item) = id }

\* C1: in every reachable state no two stored Items have the same identity
\* key lower(trim(name)) + "_" + lower(trim(category)), the value get_id()
\* returns.
C1_UniqueIdentity ==
    \A i \in Idx(items), j \in Idx(items) :
        i # j => GetId(items[i].item) # GetId(items[j].item)

\* C2: from a catalog without the key, add_item(name, p1, category, q1) and
\* then add_item(name', p2, category', q2) with the same identity key leave
\* exactly one stored Item for the key, with quantity q1 + q2 and price p1.
C2_SecondAddMerges ==
    ( /\ prev.op = "add_item" /\ prev.fresh
      /\ last.op = "add_item"
      /\ TrueId(last.name, last.category) = TrueId(prev.name, prev.category) )
    => LET m == WithId(items, TrueId(prev.name, prev.category))
       IN  /\ Cardinality(m) = 1
           /\ \A i \in m :
                /\ items[i].item.quantity = prev.quantity + last.quantity
                /\ items[i].item.price = prev.price

\* C3 as stated: the value add_item returns when it created an Item differs
\* from the value it returns when it merged into an existing one.
C3_ReturnDistinguishes ==
    ( /\ prev.op = "add_item" /\ last.op = "add_item"
      /\ prev.created # last.created )
    => prev.ret # last.ret

\* C3 as amended: add_item returns True both when it creates a new Item (the
\* dict gains an entry) and when it merges into an existing one (the dict
\* keeps its keys), so the value returned does not tell the two apart.
C3_ReturnsTrueEitherWay ==
    last.op = "add_item" =>
        /\ last.ret = TRUE
        /\ last.created <=> Len(items) = Len(last.before) + 1
        /\ ~last.created <=> [i \in Idx(items) |-> items[i].key]
                               = [i \in Idx(last.before) |-> last.before[i].key]

\* C3, its case: a creating add_item followed by a merging one, both returning True
C3_Witness ==
    /\ prev.op = "add_item" /\ prev.created /\ prev.ret
    /\ last.op = "add_item" /\ ~last.created /\ last.ret

\* C4: remove_item(name, category) with a category: when an Item with the
\* identity key of (name, category) is stored, the call returns True and the
\* catalog loses exactly that Item, the others unchanged; otherwise it returns
\* False and the catalog is unchanged.
C4_RemoveQualified ==
    (last.op = "remove_item" /\ last.hasCat) =>
        LET id == TrueId(last.name, last.category)
        IN  IF WithId(last.before, id) # {}
            THEN /\ last.ret = TRUE
                 /\ items = SelectSeq(last.before, LAMBDA e : GetId(e.item) # id)
            ELSE /\ last.ret = FALSE
                 /\ items = last.before

SameName(e, name) == Lower(e.item.name) = Lower(name)

\* C5: remove_item(name) without a category removes every stored Item whose
\* name equals name case-insensitively, whatever its category, leaves every
\* other Item unchanged (and in place), and returns True exactly when at
\* least one Item was removed.
C5_RemoveByName ==
    (last.op = "remove_item" /\ ~last.hasCat) =>
        /\ items = SelectSeq(last.before, LAMBDA e : ~SameName(e, last.name))
        /\ last.ret <=> \E i \in Idx(last.before) : SameName(last.before[i], last.name)

\* C5, its case: a remove_item(name) that removed two Items of different categories and
\* left an Item of another name
C5_Witness ==
    /\ last.op = "remove_item" /\ ~last.hasCat /\ last.ret
    /\ items # <<>>
    /\ \E i \in Idx(last.before), j \in Idx(last.before) :
          /\ SameName(last.before[i], last.name)
          /\ SameName(last.before[j], last.name)
          /\ Lower(last.before[i].item.category) # Lower(last.before[j].item.category)
          /\ last.before[i].item.name # last.before[j].item.name

\* C6: in every reachable state every stored Item has price >= 0 and
\* quantity >= 0.
C6_NonNegative ==
    \A i \in Idx(items) : items[i].item.price >= 0 /\ items[i].item.quantity >= 0

\* what the round trip compares of an Item; the price is taken as the file
\* holds it, to the hundredth
Tuple(e) == <<GetId(e.item), e.item.quantity, FormatPrice(e.item.price), e.item.category>>

Count(its, t) == Cardinality({ i \in Idx(its) : Tuple(its[i]) = t })

SameTuples(a, b) ==
    \A t \in { Tuple(a[i]) : i \in Idx(a) } \cup { Tuple(b[i]) : i \in Idx(b) } :
        Count(a, t) = Count(b, t)

\* C7: save_to_csv followed by load_from_csv of the written file into an
\* empty manager yields the same multiset of (identity key, quantity, price,
\* category) as the catalog saved.  Stated here with the prices compared to
\* the hundredth: the claim, which compares them exactly, asks for more.
C7_RoundTrip ==
    last.op = "save_then_load" => SameTuples(reloaded, items)

\* a row load_from_csv processes: four columns or more, a quantity int()
\* accepts and a price float() accepts once "," is replaced by "."
WellFormed(row) ==
    /\ Len(row) >= 4
    /\ ParseInt(row[2]).ok
    /\ ParseFloat(Replace(row[3], ",", ".")).ok

\* add_item applied, in order, to the well-formed rows among rows[1..n]
RECURSIVE AddRows(_, _, _)
AddRows(its, rows, n) ==
    IF n = 0 THEN its
    ELSE LET b == AddRows(its, rows, n - 1)
             row == rows[n]
         IN  IF WellFormed(row)
             THEN Content(AddItem(b, 0, row[1], ParseFloat(Replace(row[3], ",", ".")).val,
                                  row[4], ParseInt(row[2]).val).items)
             ELSE b

\* C8: load_from_csv of an existing file returns True whatever rows it holds,
\* and leaves the catalog that add_item, applied in file order to exactly the
\* well-formed rows, leaves; a malformed row changes nothing.
C8_LoadSkipsMalformed ==
    (last.op = "load_from_csv" /\ last.src.exists) =>
        /\ last.ret = TRUE
        /\ Content(items) = AddRows(Content(last.before), last.src.rows, Len(last.src.rows))

\* C8, its case: a load whose file holds a malformed row followed by a well-formed row that
\* created or changed an Item
C8_Witness ==
    /\ last.op = "load_from_csv" /\ last.ret
    /\ Len(last.src.rows) = 2
    /\ ~WellFormed(last.src.rows[1])
    /\ WellFormed(last.src.rows[2])
    /\ Content(items) # Content(last.before)

ViewCall == last.op \in {"view.add_quantity", "view.update_price"}

\* C9 as stated: a caller's mutation of an element of a returned list leaves
\* the stored Items unchanged.
C9_ViewsAreSnapshots == ViewCall => items = last.before

\* C9 as amended: the lists search_items and get_sorted_items return hold the
\* stored Item objects themselves, not copies.  add_quantity(amount) on an
\* element adds amount to the quantity of the Item stored in the catalog, and
\* update_price(p) with p > 0 sets its price to p, for as long as the Item is
\* in the catalog; every other stored Item is unchanged.
C9_ViewsAlias ==
    /\ last.op \in {"search_items", "get_sorted_items"} =>
          /\ \A j \in 1..Len(view) : \E i \in Idx(items) : items[i].oid = view[j]
          /\ last.op = "get_sorted_items" => Len(view) = Len(items)
    /\ ViewCall =>
          /\ Len(items) = Len(last.before)
          /\ \A i \in Idx(items) :
                LET old == last.before[i]
                IN  IF old.oid = view[last.idx]
                    THEN /\ items[i].key = old.key
                         /\ items[i].item =
                              IF last.op = "view.add_quantity"
                              THEN [old.item EXCEPT !.quantity = @ + last.quantity]
                              ELSE IF last.price > 0
                                   THEN [old.item EXCEPT !.price = last.price]
                                   ELSE old.item
                    ELSE items[i] = old

\* C9, its case: a caller's add_quantity on a list element changed the stored Item
C9_Witness ==
    /\ last.op = "view.add_quantity"
    /\ \E i \in Idx(items) :
          /\ items[i].oid = view[last.idx]
          /\ items[i].item.quantity = last.before[i].item.quantity + last.quantity
          /\ items[i].item.quantity # last.before[i].item.quantity

\* C10: a request whose normalized pair (lower(trim(name)),
\* lower(trim(category))) differs from that of the request that created an
\* Item is never merged into that Item.
C10_DistinctPairsKeptApart ==
    ( /\ prev.op = "add_item" /\ prev.created
      /\ last.op = "add_item"
      /\ NormPair(last.name, last.category) # NormPair(prev.name, prev.category) )
    => ~( /\ ~last.created
          /\ IdOf(last.name, last.category) = IdOf(prev.name, prev.category) )

====
